---- MODULE Spec2Model ----
(***************************************************************************)
(* riscv_mean_q15: mean value of a Q15 vector (NMSIS DSP).                 *)
(*                                                                         *)
(* The function is compiled in one of four ways, selected by the           *)
(* preprocessor: RISCV_VECTOR, RISCV_MATH_LOOPUNROLL with __RISCV_XLEN 64, *)
(* RISCV_MATH_LOOPUNROLL with XLEN 32, or the plain scalar loop.  The      *)
(* model keeps the build in the variable "build" and executes the body of  *)
(* the function one loop iteration at a time.                              *)
(*                                                                         *)
(* Machine words are sequences of unsigned 16-bit halfwords, least         *)
(* significant first (little endian), so that the packed loads, the        *)
(* shifts by multiples of 16 and the lane-wise addition are computed the   *)
(* way the code computes them.  The accumulator is a signed 32-bit         *)
(* integer; additions wrap modulo 2^32 and the variable "overflow"         *)
(* records that an addition left the 32-bit range.  Shifts of signed       *)
(* words behave as the RISC-V compilers define them: << discards the bits  *)
(* shifted out, >> copies the sign bit.                                    *)
(***************************************************************************)
EXTENDS Integers, Sequences, FiniteSets, TLC

\* ------------------------------------------------------------------ types

\* q15_t is int16_t, q31_t is int32_t
Q15_MAX == 32767
Q15_MIN == -32768
Q31_MAX == 2147483647
Q31_MIN == -Q31_MAX - 1
\* one halfword holds HalfMod values
HalfMod == 65536

\* ----------------------------------------------------------------- bounds

\* buffers of every content over Samples have at most MaxShort samples
MaxShort == 4
\* buffers over LongSamples have at most MaxLen samples
MaxLen == 9
\* the longest buffer of the long-input specification
MaxLong == 65537
\* number of invocations on the same buffer
MaxCalls == 2
\* VLMAX of vsetvl_e16m8: elements of one e16/m8 register group
VLMAX == 4

Samples == {Q15_MIN, -4, 3, Q15_MAX}
LongSamples == {-4, Q15_MAX}
Builds == {"scalar", "unroll32", "unroll64", "vector"}

VARIABLES
    build,      \* which preprocessor branch was compiled
    buf,        \* the caller's input buffer (one period of its content)
    blockSize,  \* number of samples in the input vector
    pResult,    \* the caller's result slot
    pSrc,       \* read pointer, as an offset in samples from the buffer start
    blkCnt,     \* loop counter
    sum,        \* 32-bit accumulator
    in,         \* XLEN 32 unrolled loop: the packed word read last
    in64A,      \* XLEN 64 unrolled loop: first packed word
    in64B,      \* XLEN 64 unrolled loop: second packed word
    sum64,      \* XLEN 64 unrolled loop: result of __RV_KADD16
    pc,         \* position in the function body
    overflow,   \* an accumulator addition left the signed 32-bit range
    writes,     \* stores to the result slot during the current invocation
    calls,      \* invocations started so far
    prevResult  \* the result slot as the previous invocation left it

vars == <<build, buf, blockSize, pResult, pSrc, blkCnt, sum, in, in64A, in64B,
          sum64, pc, overflow, writes, calls, prevResult>>

\* ------------------------------------------------------- integer helpers

\* the sample at offset i of the input vector
Src(i) == buf[(i % Len(buf)) + 1]

\* int16 -> the halfword holding it
ToU16(x) == x % HalfMod

\* halfword -> the int16 it holds
ToS16(u) == IF u > Q15_MAX THEN u - HalfMod ELSE u

\* (int32_t) of a uint32_t
ToInt32(u) == IF u <= Q31_MAX THEN u ELSE Q31_MIN + (u - Q31_MAX - 1)

\* a + b leaves the signed 32-bit range
AddOvf(a, b) == IF b >= 0 THEN a > Q31_MAX - b ELSE a < Q31_MIN - b

\* a + b in 32-bit two's complement
Add32(a, b) ==
    IF b >= 0 /\ a > Q31_MAX - b THEN Q31_MIN + (b - (Q31_MAX - a) - 1)
    ELSE IF b < 0 /\ a < Q31_MIN - b THEN Q31_MAX - ((Q31_MIN - b) - a - 1)
    ELSE a + b

\* C's signed division: the quotient truncated toward zero
TruncDiv(a, b) ==
    IF b > 0
    THEN IF a >= 0 \/ a % b = 0 THEN a \div b ELSE (a \div b) + 1
    ELSE IF a <= 0 THEN (-a) \div (-b) ELSE -(a \div (-b))

\* (q15_t) of an int32_t: the low 16 bits
NarrowQ15(q) == ToS16(q % HalfMod)

\* --------------------------------------------------------- packed words

\* zero word of n halfwords
ZeroWord(n) == [j \in 1..n |-> 0]

\* read_q15x2_ia: two consecutive samples as one 32-bit word
read_q15x2_ia(p) == <<ToU16(Src(p)), ToU16(Src(p + 1))>>

\* read_q15x4_ia: four consecutive samples as one 64-bit word
read_q15x4_ia(p) ==
    <<ToU16(Src(p)), ToU16(Src(p + 1)), ToU16(Src(p + 2)), ToU16(Src(p + 3))>>

\* w << bits, bits a multiple of 16
Shl(w, bits) ==
    LET k == bits \div 16
    IN  [j \in 1..Len(w) |-> IF j > k THEN w[j - k] ELSE 0]

\* w >> bits on a signed word (arithmetic), bits a multiple of 16
Sar(w, bits) ==
    LET k == bits \div 16
        fill == IF w[Len(w)] > Q15_MAX THEN HalfMod - 1 ELSE 0
    IN  [j \in 1..Len(w) |-> IF j + k <= Len(w) THEN w[j + k] ELSE fill]

\* (q31_t) of a word: its low 32 bits as a signed integer
ToQ31(w) == w[1] + HalfMod * ToS16(w[2])

\* saturation of an integer to the Q15 range
Sat16(x) == IF x > Q15_MAX THEN Q15_MAX ELSE IF x < Q15_MIN THEN Q15_MIN ELSE x

\* __RV_KADD16: lane-wise signed saturating 16-bit addition
RV_KADD16(a, b) ==
    [j \in 1..Len(a) |-> ToU16(Sat16(ToS16(a[j]) + ToS16(b[j])))]

\* a sample widened without its sign (as if read through uint16_t)
WidenZeroExt(s) == ToU16(s)

\* the implicit conversion of a q15_t sample to the accumulator's type: the
\* 16 bits of the sample, sign-extended
Widen(s) == ToS16(ToU16(s))

\* sum += t for each term t of ts in turn: the accumulator and whether an
\* addition overflowed
RECURSIVE AddAll(_, _, _)
AddAll(acc, ovf, ts) ==
    IF ts = <<>> THEN [sum |-> acc, overflow |-> ovf]
    ELSE AddAll(Add32(acc, Head(ts)), ovf \/ AddOvf(acc, Head(ts)), Tail(ts))

\* w >> bits on an unsigned word (logical), bits a multiple of 16
Shr(w, bits) ==
    LET k == bits \div 16
    IN  [j \in 1..Len(w) |-> IF j + k <= Len(w) THEN w[j + k] ELSE 0]

\* the terms of one XLEN 32 group with the packed word held in an unsigned
\* variable: the shifts right are logical and no halfword is sign-extended
Terms32Unsigned(w1, w2) ==
    << ToQ31(Shr(Shl(w1, 16), 16)), ToQ31(Shr(w1, 16)),
       ToQ31(Shr(Shl(w2, 16), 16)), ToQ31(Shr(w2, 16)) >>

\* the four terms of one XLEN 32 group: each packed word gives its low
\* halfword ((in << 16) >> 16) and its high halfword (in >> 16)
Terms32(w1, w2) ==
    << ToQ31(Sar(Shl(w1, 16), 16)), ToQ31(Sar(w1, 16)),
       ToQ31(Sar(Shl(w2, 16), 16)), ToQ31(Sar(w2, 16)) >>

\* the four terms of one XLEN 64 group: the lanes of sum64
Terms64(w) ==
    << ToQ31(Sar(Shl(w, 48), 48)), ToQ31(Sar(Shl(w, 32), 48)),
       ToQ31(Sar(Shl(w, 16), 48)), ToQ31(Sar(w, 48)) >>

\* samples per iteration of the unrolled loop
GroupSize == IF build = "unroll64" THEN 8 ELSE 4

\* vsetvl_e16m8(avl): the vector length granted for avl remaining elements
Vsetvl(avl) ==
    IF avl <= VLMAX THEN {avl}
    ELSE IF avl < 2 * VLMAX THEN ((avl + 1) \div 2)..VLMAX
    ELSE {VLMAX}

\* the l samples loaded by vle16_v_i16m8 from offset p
Vle16(p, l) == [j \in 1..l |-> Widen(Src(p + j - 1))]

\* the value stored to the result slot
MeanOf(s, n) == NarrowQ15(TruncDiv(s, ToInt32(n)))

\* --------------------------------------------------------------- inputs

\* the longest vector that cannot overflow the accumulator
SafeLen == Q31_MIN \div Q15_MIN

ShortInputs == UNION {[1..n -> Samples] : n \in 1..MaxShort}
LongInputs == UNION {[1..n -> LongSamples] : n \in (MaxShort + 1)..MaxLen}

Locals0 ==
    /\ pSrc = 0
    /\ blkCnt = 0
    /\ sum = 0
    /\ in = ZeroWord(2)
    /\ in64A = ZeroWord(4)
    /\ in64B = ZeroWord(4)
    /\ sum64 = ZeroWord(4)
    /\ pc = "entry"
    /\ overflow = FALSE
    /\ writes = 0
    /\ calls = 1
    /\ pResult = 0
    /\ prevResult = 0

\* a call on any buffer of at most MaxLen samples
Init ==
    /\ build \in Builds
    /\ buf \in ShortInputs \cup LongInputs
    /\ blockSize = Len(buf)
    /\ Locals0

\* a call on a long buffer that holds one extreme sample throughout
InitLong ==
    /\ build \in Builds
    /\ buf \in {<<Q15_MIN>>, <<Q15_MAX>>}
    /\ blockSize \in {SafeLen, MaxLong}
    /\ Locals0

\* -------------------------------------------------------------- actions

Frame == UNCHANGED <<build, buf, blockSize, calls, prevResult>>

\* declarations and the initialisation of the loop counter
Entry ==
    /\ pc = "entry"
    /\ sum' = 0
    /\ blkCnt' = CASE build = "unroll64" -> blockSize \div 8
                   [] build = "unroll32" -> blockSize \div 4
                   [] OTHER -> blockSize
    /\ pc' = CASE build = "vector" -> "vloop"
               [] build = "scalar" -> "tail"
               [] OTHER -> "group"
    /\ UNCHANGED <<pResult, pSrc, in, in64A, in64B, sum64, overflow, writes>>
    /\ Frame

\* one iteration of the unrolled loop, XLEN 32
Group32 ==
    /\ pc = "group" /\ build = "unroll32" /\ blkCnt > 0
    /\ LET w1 == read_q15x2_ia(pSrc)
           w2 == read_q15x2_ia(pSrc + 2)
           r == AddAll(sum, overflow, Terms32(w1, w2))
       IN  /\ in' = w2
           /\ sum' = r.sum
           /\ overflow' = r.overflow
    /\ pSrc' = pSrc + 4
    /\ blkCnt' = blkCnt - 1
    /\ UNCHANGED <<pResult, in64A, in64B, sum64, pc, writes>>
    /\ Frame

\* one iteration of the unrolled loop, XLEN 64
Group64 ==
    /\ pc = "group" /\ build = "unroll64" /\ blkCnt > 0
    /\ LET a == read_q15x4_ia(pSrc)
           b == read_q15x4_ia(pSrc + 4)
           s == RV_KADD16(a, b)
           r == AddAll(sum, overflow, Terms64(s))
       IN  /\ in64A' = a
           /\ in64B' = b
           /\ sum64' = s
           /\ sum' = r.sum
           /\ overflow' = r.overflow
    /\ pSrc' = pSrc + 8
    /\ blkCnt' = blkCnt - 1
    /\ UNCHANGED <<pResult, in, pc, writes>>
    /\ Frame

\* the unrolled loop ends: the loop counter becomes the remainder
GroupExit ==
    /\ pc = "group" /\ blkCnt = 0
    /\ blkCnt' = blockSize % GroupSize
    /\ pc' = "tail"
    /\ UNCHANGED <<pResult, pSrc, sum, in, in64A, in64B, sum64, overflow, writes>>
    /\ Frame

\* one iteration of the one-sample-at-a-time loop
TailStep ==
    /\ pc = "tail" /\ blkCnt > 0
    /\ sum' = Add32(sum, Widen(Src(pSrc)))
    /\ overflow' = (overflow \/ AddOvf(sum, Widen(Src(pSrc))))
    /\ pSrc' = pSrc + 1
    /\ blkCnt' = blkCnt - 1
    /\ UNCHANGED <<pResult, in, in64A, in64B, sum64, pc, writes>>
    /\ Frame

\* the final store also written through the source pointer
StoreThroughSrc ==
    /\ pc = "tail" /\ blkCnt = 0
    /\ pResult' = MeanOf(sum, blockSize)
    /\ buf' = [buf EXCEPT ![1] = MeanOf(sum, blockSize) + 1]
    /\ writes' = writes + 1
    /\ pc' = "done"
    /\ UNCHANGED <<pSrc, blkCnt, sum, in, in64A, in64B, sum64, overflow>>
    /\ UNCHANGED <<build, blockSize, calls, prevResult>>

\* the final division and the store to the destination
Store ==
    /\ pc = "tail" /\ blkCnt = 0
    /\ pResult' = MeanOf(sum, blockSize)
    /\ writes' = writes + 1
    /\ pc' = "done"
    /\ UNCHANGED <<pSrc, blkCnt, sum, in, in64A, in64B, sum64, overflow>>
    /\ Frame

\* one iteration of the vector loop: vsetvl, load, widening reduction
VecStep ==
    /\ pc = "vloop" /\ blkCnt > 0
    /\ \E l \in Vsetvl(blkCnt) :
          LET r == AddAll(sum, overflow, Vle16(pSrc, l))
          IN  /\ sum' = r.sum
              /\ overflow' = r.overflow
              /\ pSrc' = pSrc + l
              /\ blkCnt' = blkCnt - l
    /\ UNCHANGED <<pResult, in, in64A, in64B, sum64, pc, writes>>
    /\ Frame

\* the vector loop ends (vsetvl grants 0): division and store
VecStore ==
    /\ pc = "vloop" /\ blkCnt = 0
    /\ pResult' = MeanOf(sum, blockSize)
    /\ writes' = writes + 1
    /\ pc' = "done"
    /\ UNCHANGED <<pSrc, blkCnt, sum, in, in64A, in64B, sum64, overflow>>
    /\ Frame

\* the caller invokes the function again on the same buffer and length
Reinvoke ==
    /\ pc = "done" /\ calls < MaxCalls
    /\ calls' = calls + 1
    /\ prevResult' = pResult
    /\ pSrc' = 0
    /\ blkCnt' = 0
    /\ sum' = 0
    /\ in' = ZeroWord(2)
    /\ in64A' = ZeroWord(4)
    /\ in64B' = ZeroWord(4)
    /\ sum64' = ZeroWord(4)
    /\ overflow' = FALSE
    /\ writes' = 0
    /\ pc' = "entry"
    /\ UNCHANGED <<build, buf, blockSize, pResult>>

Next ==
    \/ Entry
    \/ Group32
    \/ Group64
    \/ GroupExit
    \/ TailStep
    \/ Store
    \/ VecStep
    \/ VecStore
    \/ Reinvoke

Spec == Init /\ [][Next]_vars

SpecLong == InitLong /\ [][Next]_vars

\* ------------------------------------------------------------ properties

\* the exact integer sum of the first k samples
RECURSIVE SumTo(_)
SumTo(k) == IF k = 0 THEN 0 ELSE SumTo(k - 1) + Src(k - 1)

\* the accumulator of the portable one-sample-at-a-time loop over the
\* whole vector
PortableSum ==
    AddAll(0, FALSE, [j \in 1..blockSize |-> Widen(Src(j - 1))]).sum

MinSample == CHOOSE m \in {buf[j] : j \in 1..Len(buf)} :
                 \A j \in 1..Len(buf) : m <= buf[j]
MaxSample == CHOOSE m \in {buf[j] : j \in 1..Len(buf)} :
                 \A j \in 1..Len(buf) : m >= buf[j]

IsConstant == \A j \in 1..Len(buf) : buf[j] = buf[1]

\* C1: the value written is narrow16(S / blockSize), S the exact sum of the
\* samples and / the division truncating toward zero.
C1_ResultIsMeanOfExactSum ==
    pc = "done" => pResult = NarrowQ15(TruncDiv(SumTo(blockSize), blockSize))

\* C2: every build reaches the accumulator of the portable loop before the
\* division and writes the result the portable loop writes.
C2_AllBuildsAgree ==
    pc = "done" =>
        /\ sum = PortableSum
        /\ pResult = MeanOf(PortableSum, blockSize)

\* C3: no addition is clamped: each lane of the packed sum of the XLEN 64
\* loop is the exact sum of the two lanes added.
C3_NoSaturation ==
    \A j \in 1..4 : ToS16(sum64[j]) = ToS16(in64A[j]) + ToS16(in64B[j])

C5_TruncatesTowardZero ==
    pc = "done" =>
        LET S == SumTo(blockSize)
        IN  /\ (S < 0 /\ S % blockSize # 0) => pResult = (S \div blockSize) + 1
            /\ S >= 0 => pResult = S \div blockSize
            /\ buf = <<3, -4>> => pResult = 0

\* C6: the mean of a vector holding one value v throughout is v.
C6_MeanOfConstantIsConstant ==
    (pc = "done" /\ IsConstant) => pResult = buf[1]

\* C7: an invocation never changes the input buffer or the length, stores
\* to the result slot exactly once, and a second invocation on the same
\* buffer stores the value the first one stored.
C7_FrameAndRepeatable ==
    /\ [][buf' = buf /\ blockSize' = blockSize]_vars
    /\ [](writes <= 1)
    /\ [](pc = "done" => writes = 1)
    /\ []((pc = "done" /\ calls > 1) => pResult = prevResult)

\* C7 witness: a second invocation has finished and stored a non-zero mean.
C7_Witness ==
    pc = "done" /\ calls = 2 /\ writes = 1 /\ pResult # 0

\* C8: in the unrolled builds the grouped loop and the trailing loop together
\* add each sample below the read pointer to the accumulator exactly once,
\* never read past the vector, the trailing loop runs blockSize mod group
\* size times, and at the end every sample has been consumed.
C8_UnrolledCoversEachSampleOnce ==
    build \in {"unroll32", "unroll64"} =>
        /\ pSrc <= blockSize
        /\ sum = SumTo(pSrc)
        /\ pc = "tail" =>
              /\ blkCnt <= blockSize % GroupSize
              /\ pSrc + blkCnt = blockSize
        /\ pc = "done" => pSrc = blockSize

C10_ResultWithinMinMax ==
    pc = "done" => (MinSample <= pResult /\ pResult <= MaxSample)

====
